---- MODULE Spec2Model ----
(***************************************************************************)
(* Model of randomFRC: the run loop of Application (src/src/main.py), the  *)
(* yt-dlp -> ffmpeg pipeline of VideoStreamer (src/src/streamer.py) and    *)
(* the pool cursor of VideoPicker (src/src/picker.py).                     *)
(*                                                                         *)
(* Execution contexts: the main thread (variable pc) and the signal        *)
(* handler Application._handle_signal.  CPython runs a signal handler on   *)
(* the main thread between two bytecodes, so the handler is one atomic     *)
(* action that may fire between any two steps of the main thread; an       *)
(* exception that leaves the handler is raised in the main thread at the   *)
(* point it interrupted.  The child processes are the environment.         *)
(***************************************************************************)
EXTENDS Integers, Sequences, FiniteSets, TLC

\* ------------------------------------------------------------------ bounds
MaxSignals == 1          \* signal deliveries explored
MaxPool == 1             \* largest pool build_pool returns
MaxRetriesCfg == 2       \* largest stream.max_retries_per_video explored
MaxLines == 2            \* most lines in a stderr buffer given to _classify_error
MaxSleepTicks == 5       \* longest _sleep explored on its own, in ticks

\* ------------------------------------------------------- program constants
CIRCUIT_BREAKER_THRESHOLD == 10
CIRCUIT_BREAKER_PAUSE == 60
EMPTY_POOL_PAUSE == 60
BACKOFF_CAP == 120
retry_delay == 5
error_cooldown == 10
TicksPerSecond == 2      \* time is counted in half seconds
MinRetriesCfg == 0 - 1   \* validate_config accepts any integer; -1 stands for the negatives

SUCCESS == "success"
VIDEO_UNAVAILABLE == "video_unavailable"
DOWNLOAD_ERROR == "download_error"
ENCODE_ERROR == "encode_error"
RTMP_ERROR == "rtmp_error"
INTERRUPTED == "interrupted"
RAISED == "raised"       \* stream_video left by an exception instead of a return

StreamResult ==
    {SUCCESS, VIDEO_UNAVAILABLE, DOWNLOAD_ERROR, ENCODE_ERROR, RTMP_ERROR, INTERRUPTED}

Min(a, b) == IF a <= b THEN a ELSE b

\* --------------------------------------------------------- _classify_error
UpperChars ==
    <<"A","B","C","D","E","F","G","H","I","J","K","L","M",
      "N","O","P","Q","R","S","T","U","V","W","X","Y","Z">>
LowerChars ==
    <<"a","b","c","d","e","f","g","h","i","j","k","l","m",
      "n","o","p","q","r","s","t","u","v","w","x","y","z">>

LowerChar(c) ==
    IF \E i \in 1..26 : UpperChars[i] = c
    THEN LowerChars[CHOOSE i \in 1..26 : UpperChars[i] = c]
    ELSE c

Lower(text) == [i \in 1..Len(text) |-> LowerChar(text[i])]

RECURSIVE JoinLines(_)
JoinLines(lines) ==
    IF lines = <<>> THEN <<>>
    ELSE IF Len(lines) = 1 THEN lines[1]
    ELSE lines[1] \o <<"\n">> \o JoinLines(Tail(lines))

Contains(text, phrase) ==
    \E i \in 1..(Len(text) - Len(phrase) + 1) :
        SubSeq(text, i, i + Len(phrase) - 1) = phrase

UnavailablePhrases ==
    { <<"v","i","d","e","o"," ","u","n","a","v","a","i","l","a","b","l","e">>,
      <<"p","r","i","v","a","t","e"," ","v","i","d","e","o">>,
      <<"r","e","m","o","v","e","d">>,
      <<"a","c","c","o","u","n","t"," ","t","e","r","m","i","n","a","t","e","d">>,
      <<"t","h","i","s"," ","v","i","d","e","o"," ","i","s"," ","n","o","t"," ","a","v","a","i","l","a","b","l","e">>,
      <<"s","i","g","n"," ","i","n"," ","t","o"," ","c","o","n","f","i","r","m"," ","y","o","u","r"," ","a","g","e">>,
      <<"j","o","i","n"," ","t","h","i","s"," ","c","h","a","n","n","e","l"," ","t","o"," ","g","e","t"," ","a","c","c","e","s","s">> }

DownloadPhrases ==
    { <<"e","r","r","o","r">>,
      <<"u","n","a","b","l","e"," ","t","o"," ","d","o","w","n","l","o","a","d">>,
      <<"h","t","t","p"," ","e","r","r","o","r">>,
      <<"u","r","l","o","p","e","n"," ","e","r","r","o","r">> }

RtmpPhrases ==
    { <<"c","o","n","n","e","c","t","i","o","n"," ","r","e","f","u","s","e","d">>,
      <<"c","o","n","n","e","c","t","i","o","n"," ","r","e","s","e","t">>,
      <<"b","r","o","k","e","n"," ","p","i","p","e">>,
      <<"i","/","o"," ","e","r","r","o","r">>,
      <<"r","t","m","p">>,
      <<"f","a","i","l","e","d"," ","t","o"," ","c","o","n","n","e","c","t">> }

EncodePhrases ==
    { <<"e","r","r","o","r">>,
      <<"i","n","v","a","l","i","d">>,
      <<"c","o","d","e","c"," ","n","o","t"," ","f","o","u","n","d">>,
      <<"e","n","c","o","d","e","r">> }

AnyPhrase(text, phrases) == \E phrase \in phrases : Contains(text, phrase)

_classify_error_SinkFirst(ytdlp_stderr, ffmpeg_stderr) ==
    LET ytdlp_text == Lower(JoinLines(ytdlp_stderr))
        ffmpeg_text == Lower(JoinLines(ffmpeg_stderr))
    IN  IF AnyPhrase(ytdlp_text, UnavailablePhrases) THEN VIDEO_UNAVAILABLE
        ELSE IF AnyPhrase(ffmpeg_text, RtmpPhrases) THEN RTMP_ERROR
        ELSE IF AnyPhrase(ytdlp_text, DownloadPhrases) THEN DOWNLOAD_ERROR
        ELSE IF AnyPhrase(ffmpeg_text, EncodePhrases) THEN ENCODE_ERROR
        ELSE DOWNLOAD_ERROR
_classify_error(ytdlp_stderr, ffmpeg_stderr) ==
    LET ytdlp_text == Lower(JoinLines(ytdlp_stderr))
        ffmpeg_text == Lower(JoinLines(ffmpeg_stderr))
    IN  IF AnyPhrase(ytdlp_text, UnavailablePhrases) THEN VIDEO_UNAVAILABLE
        ELSE IF AnyPhrase(ytdlp_text, DownloadPhrases) THEN DOWNLOAD_ERROR
        ELSE IF AnyPhrase(ffmpeg_text, RtmpPhrases) THEN RTMP_ERROR
        ELSE IF AnyPhrase(ffmpeg_text, EncodePhrases) THEN ENCODE_ERROR
        ELSE DOWNLOAD_ERROR

\* Diagnostic lines the two children are let to print (already rstrip()ped).
LineUnavailable == <<"E","R","R","O","R",":"," ","V","i","d","e","o"," ","u","n","a","v","a","i","l","a","b","l","e">>
LineHttp == <<"H","T","T","P"," ","E","r","r","o","r"," ","4","0","3">>
LineRefused == <<"C","o","n","n","e","c","t","i","o","n"," ","r","e","f","u","s","e","d">>
LineInvalid == <<"I","n","v","a","l","i","d"," ","d","a","t","a"," ","f","o","u","n","d">>

LineProgress == <<"f","r","a","m","e","="," ","1","0","0">>

YtdlpOutputs == { <<>>, <<LineUnavailable>>, <<LineHttp>> }
FfmpegOutputs == { <<>>, <<LineRefused>>, <<LineInvalid>> }

\* The buffers _classify_error is applied to, one by one: up to MaxLines
\* lines each, any of the lines above in either buffer.
StderrLines == {LineUnavailable, LineHttp, LineRefused, LineInvalid, LineProgress}
StderrBuffers == UNION {[1..n -> StderrLines] : n \in 0..MaxLines}

\* ------------------------------------------------------- _detect_hw_encoder
libx264 == <<"l","i","b","x","2","6","4">>
h264_nvenc == <<"h","2","6","4","_","n","v","e","n","c">>
h264_videotoolbox == <<"h","2","6","4","_","v","i","d","e","o","t","o","o","l","b","o","x">>
h264_vaapi == <<"h","2","6","4","_","v","a","a","p","i">>
hevc_nvenc == <<"h","e","v","c","_","n","v","e","n","c">>

\* stream.hw_accel, as validate_config lets it through
Preferences == {"auto", "nvenc", "videotoolbox", "vaapi", "none"}

\* The encoders an ffmpeg build may list, and the text of its listing:
\* one line for each encoder, " V..... <name>".
KnownEncoders == <<libx264, h264_nvenc, hevc_nvenc, h264_videotoolbox, h264_vaapi>>
ListingLine(name) == <<" ","V",".",".",".",".","."," ">> \o name
Listing(built) ==
    JoinLines([i \in 1..Len(SelectSeq(KnownEncoders, LAMBDA e : e \in built)) |->
                 ListingLine(SelectSeq(KnownEncoders, LAMBDA e : e \in built)[i])])

\* path: shutil.which("ffmpeg") found it; run: how subprocess.run ended;
\* built: the encoders compiled into that ffmpeg (result.stdout lists them)
FfmpegEnvs ==
    { e \in [path : BOOLEAN, run : {"ok", "oserror", "timeout"},
             built : SUBSET {KnownEncoders[i] : i \in 1..Len(KnownEncoders)}] :
        (e.path /\ e.run = "ok") \/ e.built = {} }

AllCandidates ==
    << [label |-> "nvenc", encoder |-> h264_nvenc, extra_args |-> <<"-preset", "p4">>],
       [label |-> "videotoolbox", encoder |-> h264_videotoolbox, extra_args |-> <<>>],
       [label |-> "vaapi", encoder |-> h264_vaapi, extra_args |-> <<>>] >>

\* candidates: the three appends, each under its test of the preference
Candidates_VaapiFirst(preference) ==
    SelectSeq(<<AllCandidates[3], AllCandidates[2], AllCandidates[1]>>,
              LAMBDA c : preference \in {c.label, "auto"})
Candidates(preference) ==
    SelectSeq(AllCandidates, LAMBDA c : preference \in {c.label, "auto"})

Software(how) == [encoder |-> libx264, extra_args |-> <<>>, probed |-> how]

_detect_hw_encoder(preference, env) ==
    IF preference = "none" THEN Software("no")
    ELSE IF ~env.path THEN Software("which")
    ELSE IF env.run # "ok" THEN Software("run")
    ELSE LET available == Listing(env.built)
             found == SelectSeq(Candidates(preference),
                                LAMBDA c : Contains(available, c.encoder))
         IN  IF found # <<>>
             THEN [encoder |-> found[1].encoder,
                   extra_args |-> found[1].extra_args, probed |-> "run"]
             ELSE Software("run")

\* The machine of the run loop: ffmpeg is installed and has no GPU encoder.
PlainEnv == [path |-> TRUE, run |-> "ok", built |-> {libx264}]

\* ------------------------------------------------------------------- state
ProcIds == {"ytdlp", "ffmpeg"}
NoProc == [st |-> "none", rc |-> 0, term |-> FALSE, kill |-> FALSE]
NoDrain == [p \in ProcIds |-> "none"]

VARIABLES
    pc,                  \* position of the main thread
    running,             \* Application._running
    consecutive_errors,  \* Application._consecutive_errors
    max_retries,         \* config.stream.max_retries_per_video
    hw_accel,            \* config.stream.hw_accel
    ffmpeg_env,          \* what shutil.which and "ffmpeg -encoders" give
    encoder,             \* VideoStreamer._encoder, VideoStreamer._encoder_args
    probed,              \* how far the probing of ffmpeg went
    pool_size,           \* len(VideoPicker._pool)
    index,               \* VideoPicker._index
    retries,             \* run(): retries
    result,              \* run(): result
    interrupted,         \* VideoStreamer._interrupted
    current_procs,       \* VideoStreamer._current_procs
    proc,                \* the two children of the run in progress
    ytdlp_stderr_lines,  \* stream_video(): ytdlp_stderr_lines
    ffmpeg_stderr_lines, \* stream_video(): ffmpeg_stderr_lines
    pipe_open,           \* the parent still holds ytdlp_proc.stdout
    drain,               \* the two stderr drain threads of the run in progress
    outcome,             \* what the last stream_video call ended with
    sleep_kind,          \* which _sleep call is in progress
    sleep_req,           \* _sleep(): seconds, in ticks
    remaining,           \* _sleep(): end - time.monotonic(), in ticks
    napping,             \* _sleep(): inside time.sleep()
    late,                \* _sleep(): ticks slept in time.sleep() calls that
                         \* ended after _running was cleared
    signals,             \* signals delivered so far
    hist                 \* observations of the run kept for the properties

vars == <<pc, running, consecutive_errors, max_retries,
          hw_accel, ffmpeg_env, encoder, probed, pool_size, index,
          retries, result, interrupted, current_procs, proc,
          ytdlp_stderr_lines, ffmpeg_stderr_lines, pipe_open, drain, outcome,
          sleep_kind, sleep_req, remaining, napping, late, signals, hist>>
encoderVars == <<hw_accel, ffmpeg_env, encoder, probed>>

pickerVars == <<pool_size, index>>
streamVars == <<interrupted, current_procs, proc, ytdlp_stderr_lines,
                ffmpeg_stderr_lines, pipe_open, drain, outcome>>
sleepVars == <<sleep_kind, sleep_req, remaining, napping, late>>

\* hist fields:
\*   calls        stream_video calls made for the pulled item
\*   retry_sleeps _sleep(retry_delay) calls made for the pulled item
\*   cool_sleeps  backoff or cooldown _sleep calls made for the pulled item
\*   prior        consecutive_errors when the item was pulled
\*   applied      the result last given to _handle_result ("" before any)
\*   lowered      what lowered consecutive_errors in this turn of the loop
\*   intr_at_call _interrupted when stream_video was entered
\*   sig_in_run   a signal arrived after the pre-start check and before the
\*                check that settles the outcome
\*   spawn_late   a child was started while _interrupted was set
\*   pull_late    next_video() was called while _running was false
\*   popen_failed the Popen call of this run that raised ("" when none did)
\*   clash        the handler went through _current_procs and cleared it
\*                while the main thread was inside its own _kill_current
\*   in_flight    stream_video calls that were entered and have not returned
\*   rebuild      how _safe_rebuild_pool went in this turn of the loop
\*   epipe        yt-dlp exited during ytdlp_proc.wait() with ffmpeg gone and
\*                the pipe closed in the parent: its writes had no reader
\*                left (forgotten once that wait has returned)
NoHist ==
    [calls |-> 0, retry_sleeps |-> 0, cool_sleeps |-> 0, prior |-> 0,
     applied |-> "", lowered |-> "", intr_at_call |-> FALSE, sig_in_run |-> FALSE,
     spawn_late |-> FALSE, pull_late |-> FALSE, popen_failed |-> "",
     clash |-> FALSE, in_flight |-> 0, rebuild |-> "",
     epipe |-> FALSE]

\* A new turn of the run loop forgets what was observed of the last item.
NewIteration(h) ==
    [NoHist EXCEPT !.spawn_late = h.spawn_late, !.pull_late = h.pull_late,
                   !.clash = h.clash, !.in_flight = h.in_flight]

Terminal == {"stopped", "crashed", "exit1"}

Init ==
    /\ pc = "startup"
    /\ running = TRUE
    /\ consecutive_errors = 0
    /\ max_retries \in MinRetriesCfg..MaxRetriesCfg
    /\ hw_accel = "auto"
    /\ ffmpeg_env = PlainEnv
    /\ encoder = [name |-> _detect_hw_encoder(hw_accel, ffmpeg_env).encoder,
                  args |-> _detect_hw_encoder(hw_accel, ffmpeg_env).extra_args]
    /\ probed = _detect_hw_encoder(hw_accel, ffmpeg_env).probed
    /\ pool_size = 0
    /\ index = 0
    /\ retries = 0
    /\ result = INTERRUPTED
    /\ interrupted = FALSE
    /\ current_procs = <<>>
    /\ proc = [p \in ProcIds |-> NoProc]
    /\ ytdlp_stderr_lines = <<>>
    /\ ffmpeg_stderr_lines = <<>>
    /\ pipe_open = FALSE
    /\ drain = NoDrain
    /\ outcome = ""
    /\ sleep_kind = ""
    /\ sleep_req = 0
    /\ remaining = 0
    /\ napping = FALSE
    /\ late = 0
    /\ signals = 0
    /\ hist = NoHist

\* ------------------------------------------------------------------ _sleep
Ticks(seconds) == seconds * TicksPerSecond

\* Entering _sleep: end = now + seconds.
StartSleepTicks(kind, ticks) ==
    /\ pc' = "sleep"
    /\ sleep_kind' = kind
    /\ sleep_req' = ticks
    /\ remaining' = ticks
    /\ napping' = FALSE
    /\ late' = 0

StartSleep(kind, seconds) == StartSleepTicks(kind, Ticks(seconds))

AfterSleep_SkipRebuild(kind) ==
    CASE kind = "circuit" -> "cb_reset"
      [] kind = "retry" -> "retry_guard"
      [] OTHER -> "loop"
AfterSleep(kind) ==
    CASE kind = "circuit" -> "cb_reset"
      [] kind = "empty" -> "rebuild"
      [] kind = "retry" -> "retry_guard"
      [] OTHER -> "loop"

\* while self._running: ... if remaining <= 0: break
SleepGoesOn(run, rem) == run /\ rem > 0

\* min(1.0, remaining)
NapTicks_FullStep(rem) == TicksPerSecond
NapTicks(rem) == Min(TicksPerSecond, rem)

\* One turn of the while loop of _sleep: its two tests, up to the call of
\* time.sleep.
SleepStep ==
    /\ pc = "sleep"
    /\ ~napping
    /\ IF SleepGoesOn(running, remaining)
       THEN /\ napping' = TRUE
            /\ UNCHANGED <<pc, sleep_kind, sleep_req, remaining, late>>
       ELSE /\ pc' = AfterSleep(sleep_kind)
            /\ sleep_kind' = ""
            /\ sleep_req' = 0
            /\ remaining' = 0
            /\ napping' = FALSE
            /\ late' = 0
    /\ UNCHANGED <<running, consecutive_errors, max_retries, encoderVars, pickerVars,
                   retries, result, streamVars, signals, hist>>

\* time.sleep(min(1.0, remaining)) returns; a signal handled meanwhile does
\* not cut it short.
SleepNap ==
    /\ pc = "sleep"
    /\ napping
    /\ napping' = FALSE
    /\ remaining' = remaining - NapTicks(remaining)
    /\ late' = IF running THEN late ELSE late + NapTicks(remaining)
    /\ UNCHANGED <<pc, sleep_kind, sleep_req>>
    /\ UNCHANGED <<running, consecutive_errors, max_retries, encoderVars, pickerVars,
                   retries, result, streamVars, signals, hist>>

\* ---------------------------------------------------------- Application.run
\* run(): the initial build_pool; a failure or an empty pool is sys.exit(1).
BuildInitialPool ==
    /\ pc = "startup"
    /\ \E n \in 0..MaxPool, ok \in BOOLEAN :
        IF ok /\ n > 0
        THEN /\ pool_size' = n
             /\ index' = 0
             /\ pc' = "loop"
        ELSE /\ pc' = "exit1"
             /\ pool_size' = IF ok THEN n ELSE pool_size
             /\ index' = 0
    /\ UNCHANGED <<running, consecutive_errors, max_retries, encoderVars, retries, result,
                   streamVars, sleepVars, signals, hist>>

\* while self._running:
LoopCheck ==
    /\ pc = "loop"
    /\ pc' = IF running THEN "cb_check" ELSE "stopped"
    /\ hist' = IF running THEN NewIteration(hist) ELSE hist
    /\ UNCHANGED <<running, consecutive_errors, max_retries, encoderVars, pickerVars,
                   retries, result, streamVars, sleepVars, signals>>

CircuitOpen_Strict(errors) == errors > CIRCUIT_BREAKER_THRESHOLD
CircuitOpen_Never(errors) == FALSE
CircuitOpen(errors) == errors >= CIRCUIT_BREAKER_THRESHOLD

\* if self._consecutive_errors >= CIRCUIT_BREAKER_THRESHOLD: self._sleep(...)
CircuitCheck ==
    /\ pc = "cb_check"
    /\ IF CircuitOpen(consecutive_errors)
       THEN StartSleep("circuit", CIRCUIT_BREAKER_PAUSE)
       ELSE /\ pc' = "pull"
            /\ UNCHANGED sleepVars
    /\ UNCHANGED <<running, consecutive_errors, max_retries, encoderVars, pickerVars,
                   retries, result, streamVars, signals, hist>>

\* self._consecutive_errors = 0; continue
CircuitReset ==
    /\ pc = "cb_reset"
    /\ consecutive_errors' = 0
    /\ pc' = "loop"
    /\ hist' = [hist EXCEPT !.lowered = IF consecutive_errors > 0 THEN "circuit" ELSE @]
    /\ UNCHANGED <<running, max_retries, encoderVars, pickerVars, retries, result,
                   streamVars, sleepVars, signals>>

\* video = self._picker.next_video(), then result = INTERRUPTED; retries = 0.
\* next_video: an exhausted pool is rebuilt when the TTL has expired
\* (build_pool may raise, which nothing in run() catches) and reshuffled
\* otherwise; an empty pool gives None.
NextVideo ==
    /\ pc = "pull"
    /\ \E expired \in BOOLEAN, n \in 0..MaxPool, ok \in BOOLEAN :
        LET exhausted == index >= pool_size
            rebuilt == exhausted /\ expired
            size == IF rebuilt THEN n ELSE pool_size
            idx == IF exhausted THEN 0 ELSE index
        IN  IF rebuilt /\ ~ok
            THEN /\ pc' = "crashed"
                 /\ UNCHANGED <<pickerVars, retries, result, sleepVars>>
                 /\ hist' = [hist EXCEPT !.pull_late = @ \/ ~running]
            ELSE IF size = 0
            THEN /\ pool_size' = size
                 /\ index' = idx
                 /\ StartSleep("empty", EMPTY_POOL_PAUSE)
                 /\ UNCHANGED <<retries, result>>
                 /\ hist' = [hist EXCEPT !.pull_late = @ \/ ~running]
            ELSE /\ pool_size' = size
                 /\ index' = idx + 1
                 /\ result' = INTERRUPTED
                 /\ retries' = 0
                 /\ pc' = "retry_guard"
                 /\ UNCHANGED sleepVars
                 /\ hist' = [hist EXCEPT !.calls = 0, !.retry_sleeps = 0,
                                         !.cool_sleeps = 0,
                                         !.prior = consecutive_errors,
                                         !.pull_late = @ \/ ~running]
    /\ UNCHANGED <<running, consecutive_errors, max_retries, encoderVars, streamVars, signals>>

\* self._safe_rebuild_pool(); continue   (a failing build_pool is swallowed)
RebuildPool ==
    /\ pc = "rebuild"
    /\ \E n \in 0..MaxPool, ok \in BOOLEAN :
        IF ok
        THEN /\ pool_size' = n
             /\ index' = 0
             /\ hist' = [hist EXCEPT !.rebuild = "ok"]
        ELSE /\ UNCHANGED pickerVars
             /\ hist' = [hist EXCEPT !.rebuild = "failed"]
    /\ pc' = "loop"
    /\ UNCHANGED <<running, consecutive_errors, max_retries, encoderVars, retries, result,
                   streamVars, sleepVars, signals>>

RetryGuard_OneMore(r, maxr, run) == r <= maxr + 1 /\ run
RetryGuard(r, maxr, run) == r <= maxr /\ run

\* while retries <= max_retries_per_video and self._running:
RetryLoopCheck ==
    /\ pc = "retry_guard"
    /\ pc' = IF RetryGuard(retries, max_retries, running) THEN "sv_call" ELSE "handle"
    /\ UNCHANGED <<running, consecutive_errors, max_retries, encoderVars, pickerVars,
                   retries, result, streamVars, sleepVars, signals, hist>>

\* ------------------------------------------------ VideoStreamer._kill_current
\* What a child does when _kill_current waits for it: how = "grace" it exits
\* within wait(timeout=5) with status rc; "forced" it outlives the grace
\* period and dies within wait(timeout=2) after kill(); "stuck" it is still
\* there after that second wait, which raises TimeoutExpired (only OSError
\* is caught).
Reactions == [ProcIds -> [how : {"grace", "forced", "stuck"}, rc : {0, 1}]]

\* for proc in self._current_procs: if proc.poll() is None: send SIGTERM
SendTerm(ps, list) ==
    [p \in ProcIds |->
        IF (\E i \in 1..Len(list) : list[i] = p) /\ ps[p].st = "running"
        THEN [ps[p] EXCEPT !.term = TRUE]
        ELSE ps[p]]

\* for proc in self._current_procs: wait(timeout=5), else kill(), wait(timeout=2)
RECURSIVE WaitAndKill(_, _, _, _)
WaitAndKill(ps, list, i, react) ==
    IF i > Len(list) THEN [proc |-> ps, raised |-> FALSE]
    ELSE LET p == list[i] IN
         IF ps[p].st # "running"
         THEN WaitAndKill(ps, list, i + 1, react)
         ELSE IF react[p].how = "grace"
         THEN WaitAndKill([ps EXCEPT ![p].st = "exited", ![p].rc = react[p].rc],
                          list, i + 1, react)
         ELSE IF react[p].how = "forced"
         THEN WaitAndKill([ps EXCEPT ![p].st = "exited", ![p].rc = 1, ![p].kill = TRUE],
                          list, i + 1, react)
         ELSE [proc |-> [ps EXCEPT ![p].kill = TRUE], raised |-> TRUE]

\* The whole of _kill_current, as the signal handler runs it.
KillCurrent(ps, list, react) == WaitAndKill(SendTerm(ps, list), list, 1, react)

\* ------------------------------------------------ VideoStreamer.stream_video
TryRegion == {"sv_threads", "sv_wait_f", "sv_wait_y", "sv_join"}
ExceptRegion == {"kc_term", "kc_wait", "kc_clear", "sv_exc_check"}
\* after the pre-start check, up to the check that settles the outcome
BeforeDecision ==
    {"sv_popen1", "sv_popen2", "sv_close", "sv_setprocs", "sv_finally", "sv_check2"}
        \cup TryRegion \cup ExceptRegion
InRun == BeforeDecision \cup {"sv_rc", "sv_ret"}

\* result = self._streamer.stream_video(video): the call itself
StreamCall ==
    /\ pc = "sv_call"
    /\ pc' = "sv_check"
    /\ outcome' = ""
    /\ proc' = [p \in ProcIds |-> NoProc]
    /\ hist' = [hist EXCEPT !.calls = @ + 1, !.intr_at_call = interrupted,
                            !.sig_in_run = FALSE, !.popen_failed = "",
                            !.in_flight = @ + 1, !.epipe = FALSE]
    /\ UNCHANGED <<running, consecutive_errors, max_retries, encoderVars, pickerVars,
                   retries, result, interrupted, current_procs,
                   ytdlp_stderr_lines, ffmpeg_stderr_lines, pipe_open, drain,
                   sleepVars, signals>>

PreStartCancelled_Never(intr) == FALSE
PreStartCancelled(intr) == intr

\* if self._interrupted: return StreamResult.INTERRUPTED
PreStartCheck ==
    /\ pc = "sv_check"
    /\ IF PreStartCancelled(interrupted)
       THEN /\ outcome' = INTERRUPTED
            /\ pc' = "sv_ret"
       ELSE /\ pc' = "sv_popen1"
            /\ UNCHANGED outcome
    /\ UNCHANGED <<running, consecutive_errors, max_retries, encoderVars, pickerVars,
                   retries, result, interrupted, current_procs, proc,
                   ytdlp_stderr_lines, ffmpeg_stderr_lines, pipe_open, drain,
                   sleepVars, signals, hist>>

\* ytdlp_proc = subprocess.Popen(ytdlp_cmd, stdout=PIPE, stderr=PIPE)
PopenYtdlp ==
    /\ pc = "sv_popen1"
    /\ \E ok \in BOOLEAN :
        IF ok
        THEN /\ proc' = [proc EXCEPT !["ytdlp"].st = "running"]
             /\ pipe_open' = TRUE
             /\ pc' = "sv_popen2"
             /\ hist' = [hist EXCEPT !.spawn_late = @ \/ interrupted]
        ELSE /\ pc' = "kc_term"
             /\ hist' = [hist EXCEPT !.popen_failed = "ytdlp"]
             /\ UNCHANGED <<proc, pipe_open, drain>>
    /\ UNCHANGED <<running, consecutive_errors, max_retries, encoderVars, pickerVars,
                   retries, result, interrupted, current_procs,
                   ytdlp_stderr_lines, ffmpeg_stderr_lines, drain, outcome,
                   sleepVars, signals>>

\* ffmpeg_proc = subprocess.Popen(ffmpeg_cmd, stdin=ytdlp_proc.stdout, ...)
PopenFfmpeg ==
    /\ pc = "sv_popen2"
    /\ \E ok \in BOOLEAN :
        IF ok
        THEN /\ proc' = [proc EXCEPT !["ffmpeg"].st = "running"]
             /\ pc' = "sv_close"
             /\ hist' = [hist EXCEPT !.spawn_late = @ \/ interrupted]
        ELSE /\ pc' = "kc_term"
             /\ hist' = [hist EXCEPT !.popen_failed = "ffmpeg"]
             /\ UNCHANGED proc
    /\ UNCHANGED <<running, consecutive_errors, max_retries, encoderVars, pickerVars,
                   retries, result, interrupted, current_procs,
                   ytdlp_stderr_lines, ffmpeg_stderr_lines, pipe_open, drain, outcome,
                   sleepVars, signals>>

\* ytdlp_proc.stdout.close()
PipeAfterClose_Kept(open) == open
PipeAfterClose(open) == FALSE

ClosePipe ==
    /\ pc = "sv_close"
    /\ pipe_open' = PipeAfterClose(pipe_open)
    /\ pc' = "sv_setprocs"
    /\ UNCHANGED <<running, consecutive_errors, max_retries, encoderVars, pickerVars,
                   retries, result, interrupted, current_procs, proc,
                   ytdlp_stderr_lines, ffmpeg_stderr_lines, drain, outcome,
                   sleepVars, signals, hist>>

\* self._current_procs = [ytdlp_proc, ffmpeg_proc]
SetCurrentProcs ==
    /\ pc = "sv_setprocs"
    /\ current_procs' = <<"ytdlp", "ffmpeg">>
    /\ pc' = "sv_threads"
    /\ UNCHANGED <<running, consecutive_errors, max_retries, encoderVars, pickerVars,
                   retries, result, interrupted, proc,
                   ytdlp_stderr_lines, ffmpeg_stderr_lines, pipe_open, drain, outcome,
                   sleepVars, signals, hist>>

\* t1.start(); t2.start()
StartDrains ==
    /\ pc = "sv_threads"
    /\ drain' = [p \in ProcIds |-> "reading"]
    /\ pc' = "sv_wait_f"
    /\ UNCHANGED <<running, consecutive_errors, max_retries, encoderVars, pickerVars,
                   retries, result, interrupted, current_procs, proc,
                   ytdlp_stderr_lines, ffmpeg_stderr_lines, pipe_open, outcome,
                   sleepVars, signals, hist>>

\* ffmpeg_proc.wait()
WaitFfmpeg ==
    /\ pc = "sv_wait_f"
    /\ proc["ffmpeg"].st = "exited"
    /\ pc' = "sv_wait_y"
    /\ UNCHANGED <<running, consecutive_errors, max_retries, encoderVars, pickerVars,
                   retries, result, streamVars, sleepVars, signals, hist>>

\* ytdlp_proc.wait()
WaitYtdlp ==
    /\ pc = "sv_wait_y"
    /\ proc["ytdlp"].st = "exited"
    /\ pc' = "sv_join"
    /\ hist' = [hist EXCEPT !.epipe = FALSE]
    /\ UNCHANGED <<running, consecutive_errors, max_retries, encoderVars, pickerVars,
                   retries, result, streamVars, sleepVars, signals>>

\* t1.join(timeout=5); t2.join(timeout=5); ytdlp_stderr_lines = ytdlp_stderr_text
\* Each join returns when its thread has ended, or after 5 s with the thread
\* still reading; ytdlp_stderr_lines is from here on the list drain_ytdlp
\* appends to.
JoinDrains ==
    /\ pc = "sv_join"
    /\ pc' = "sv_finally"
    /\ UNCHANGED <<running, consecutive_errors, max_retries, encoderVars, pickerVars,
                   retries, result, streamVars, sleepVars, signals, hist>>

\* drain_ytdlp, _drain_stderr: the thread has appended the lines its child
\* printed and its "for line in stream" ends, at end of file.  The file
\* ends after the child has exited, at once or later (a process the child
\* started may keep the pipe open).  Nothing in stream_video looks at a
\* thread or at its list before the joins, so the step is taken from there
\* on; it is taken as long as stream_video may still read the lists.
DrainOutputs(p) == IF p = "ytdlp" THEN YtdlpOutputs ELSE FfmpegOutputs

DrainEof ==
    /\ pc \in {"sv_join", "sv_finally", "sv_check2", "sv_rc"}
    /\ \E p \in ProcIds :
        /\ drain[p] = "reading"
        /\ proc[p].st = "exited"
        /\ drain' = [drain EXCEPT ![p] = "done"]
        /\ \E lines \in DrainOutputs(p) :
            IF p = "ytdlp"
            THEN ytdlp_stderr_lines' = lines /\ UNCHANGED ffmpeg_stderr_lines
            ELSE ffmpeg_stderr_lines' = lines /\ UNCHANGED ytdlp_stderr_lines
    /\ UNCHANGED <<pc, running, consecutive_errors, max_retries, encoderVars, pickerVars,
                   retries, result, interrupted, current_procs, proc,
                   pipe_open, outcome, sleepVars, signals, hist>>

\* finally: self._current_procs.clear()      (normal completion of the try)
FinallyClear ==
    /\ pc = "sv_finally"
    /\ current_procs' = <<>>
    /\ pc' = "sv_check2"
    /\ UNCHANGED <<running, consecutive_errors, max_retries, encoderVars, pickerVars,
                   retries, result, interrupted, proc,
                   ytdlp_stderr_lines, ffmpeg_stderr_lines, pipe_open, drain, outcome,
                   sleepVars, signals, hist>>

Cancelled(intr) == intr

PipelineOk_FfmpegOnly(ytdlp_rc, ffmpeg_rc) == ffmpeg_rc = 0
PipelineOk(ytdlp_rc, ffmpeg_rc) == ytdlp_rc = 0 /\ ffmpeg_rc = 0

\* if self._interrupted: return StreamResult.INTERRUPTED     (after the try)
PostCheck ==
    /\ pc = "sv_check2"
    /\ IF Cancelled(interrupted)
       THEN /\ outcome' = INTERRUPTED
            /\ pc' = "sv_ret"
       ELSE /\ pc' = "sv_rc"
            /\ UNCHANGED outcome
    /\ UNCHANGED <<running, consecutive_errors, max_retries, encoderVars, pickerVars,
                   retries, result, interrupted, current_procs, proc,
                   ytdlp_stderr_lines, ffmpeg_stderr_lines, pipe_open, drain,
                   sleepVars, signals, hist>>

\* if ytdlp_rc == 0 and ffmpeg_rc == 0: SUCCESS, else _classify_error(...)
ReturnCodes ==
    /\ pc = "sv_rc"
    /\ outcome' = IF PipelineOk(proc["ytdlp"].rc, proc["ffmpeg"].rc)
                  THEN SUCCESS
                  ELSE _classify_error(ytdlp_stderr_lines, ffmpeg_stderr_lines)
    /\ pc' = "sv_ret"
    /\ UNCHANGED <<running, consecutive_errors, max_retries, encoderVars, pickerVars,
                   retries, result, interrupted, current_procs, proc,
                   ytdlp_stderr_lines, ffmpeg_stderr_lines, pipe_open, drain,
                   sleepVars, signals, hist>>

\* except Exception: self._kill_current()  -- its first loop
ExceptTerm ==
    /\ pc = "kc_term"
    /\ proc' = SendTerm(proc, current_procs)
    /\ pc' = "kc_wait"
    /\ UNCHANGED <<running, consecutive_errors, max_retries, encoderVars, pickerVars,
                   retries, result, interrupted, current_procs,
                   ytdlp_stderr_lines, ffmpeg_stderr_lines, pipe_open, drain, outcome,
                   sleepVars, signals, hist>>

\* ... its second loop; a TimeoutExpired leaves the except clause, the
\* finally clause clears the list and stream_video raises into run().
ExceptWait ==
    /\ pc = "kc_wait"
    /\ \E react \in Reactions :
        LET k == WaitAndKill(proc, current_procs, 1, react) IN
        /\ proc' = k.proc
        /\ IF k.raised
           THEN /\ pc' = "crashed"
                /\ outcome' = RAISED
                /\ current_procs' = <<>>
           ELSE /\ pc' = "kc_clear"
                /\ UNCHANGED <<outcome, current_procs>>
    /\ UNCHANGED <<running, consecutive_errors, max_retries, encoderVars, pickerVars,
                   retries, result, interrupted,
                   ytdlp_stderr_lines, ffmpeg_stderr_lines, pipe_open, drain,
                   sleepVars, signals, hist>>

\* ... its self._current_procs.clear()
ExceptClear ==
    /\ pc = "kc_clear"
    /\ current_procs' = <<>>
    /\ pc' = "sv_exc_check"
    /\ UNCHANGED <<running, consecutive_errors, max_retries, encoderVars, pickerVars,
                   retries, result, interrupted, proc,
                   ytdlp_stderr_lines, ffmpeg_stderr_lines, pipe_open, drain, outcome,
                   sleepVars, signals, hist>>

\* if self._interrupted: return INTERRUPTED; return DOWNLOAD_ERROR; finally
ExceptReturn ==
    /\ pc = "sv_exc_check"
    /\ outcome' = IF Cancelled(interrupted) THEN INTERRUPTED ELSE DOWNLOAD_ERROR
    /\ current_procs' = <<>>
    /\ pc' = "sv_ret"
    /\ UNCHANGED <<running, consecutive_errors, max_retries, encoderVars, pickerVars,
                   retries, result, interrupted, proc,
                   ytdlp_stderr_lines, ffmpeg_stderr_lines, pipe_open, drain,
                   sleepVars, signals, hist>>

\* A child exits on its own account (also after a signal it took its time
\* to act on).
\* The pipe from yt-dlp to ffmpeg has no reader: ffmpeg, which got its read
\* end as stdin, is gone and the parent closed its own copy.
NoReader == proc["ffmpeg"].st = "exited" /\ ~pipe_open

ProcExit ==
    /\ pc \in InRun
    /\ \E p \in ProcIds, rc \in {0, 1} :
        /\ proc[p].st = "running"
        /\ proc' = [proc EXCEPT ![p].st = "exited", ![p].rc = rc]
        /\ hist' = [hist EXCEPT !.epipe = @ \/ (p = "ytdlp" /\ NoReader
                                                   /\ pc = "sv_wait_y")]
    /\ UNCHANGED <<pc, running, consecutive_errors, max_retries, encoderVars, pickerVars,
                   retries, result, interrupted, current_procs,
                   ytdlp_stderr_lines, ffmpeg_stderr_lines, pipe_open, drain, outcome,
                   sleepVars, signals>>

\* ------------------------------------------------- run(): after stream_video
StopsRetry(res) == res \in {SUCCESS, INTERRUPTED, VIDEO_UNAVAILABLE}

RetrySleepDue_Always(r, maxr) == TRUE
RetrySleepDue(r, maxr) == r <= maxr

\* the return of stream_video closes the call
FramesAfterReturn_Leak(n) == n
FramesAfterReturn(n) == n - 1

\* result = <return value>; break on SUCCESS, INTERRUPTED, VIDEO_UNAVAILABLE;
\* retries += 1; if retries <= max_retries_per_video: self._sleep(retry_delay)
AfterStream ==
    /\ pc = "sv_ret"
    /\ result' = outcome
    /\ proc' = [p \in ProcIds |-> NoProc]
    /\ ytdlp_stderr_lines' = <<>>
    /\ ffmpeg_stderr_lines' = <<>>
    /\ pipe_open' = FALSE
    /\ drain' = NoDrain
    /\ IF StopsRetry(outcome)
       THEN /\ pc' = "handle"
            /\ hist' = [hist EXCEPT !.popen_failed = "", !.epipe = FALSE,
                                    !.in_flight = FramesAfterReturn(@)]
            /\ UNCHANGED <<retries, sleepVars>>
       ELSE /\ retries' = retries + 1
            /\ IF RetrySleepDue(retries + 1, max_retries)
               THEN /\ StartSleep("retry", retry_delay)
                    /\ hist' = [hist EXCEPT !.retry_sleeps = @ + 1,
                                            !.popen_failed = "", !.epipe = FALSE,
                                            !.in_flight = FramesAfterReturn(@)]
               ELSE /\ pc' = "retry_guard"
                    /\ hist' = [hist EXCEPT !.popen_failed = "", !.epipe = FALSE,
                                            !.in_flight = FramesAfterReturn(@)]
                    /\ UNCHANGED sleepVars
    /\ UNCHANGED <<running, consecutive_errors, max_retries, encoderVars, pickerVars,
                   interrupted, current_procs, outcome, signals>>

\* -------------------------------------------------- Application._handle_result
ErrorsAfter_SkipResets(res, errors) ==
    IF res \in {SUCCESS, VIDEO_UNAVAILABLE} THEN 0
    ELSE IF res = INTERRUPTED THEN errors
    ELSE errors + 1
ErrorsAfter_CountsSkip(res, errors) ==
    IF res = SUCCESS THEN 0
    ELSE IF res = INTERRUPTED THEN errors
    ELSE errors + 1
ErrorsAfter(res, errors) ==
    IF res = SUCCESS THEN 0
    ELSE IF res \in {INTERRUPTED, VIDEO_UNAVAILABLE} THEN errors
    ELSE errors + 1

Backoff_BeforeIncrement(errors) == Min(2 ^ (errors - 1), BACKOFF_CAP)
Backoff(errors) == Min(2 ^ errors, BACKOFF_CAP)

HandleResult ==
    /\ pc = "handle"
    /\ consecutive_errors' = ErrorsAfter(result, consecutive_errors)
    /\ IF result = RTMP_ERROR
       THEN /\ StartSleep("backoff", Backoff(consecutive_errors'))
            /\ hist' = [hist EXCEPT !.applied = result, !.cool_sleeps = @ + 1]
       ELSE IF result \in {DOWNLOAD_ERROR, ENCODE_ERROR}
       THEN /\ StartSleep("cooldown", error_cooldown)
            /\ hist' = [hist EXCEPT !.applied = result, !.cool_sleeps = @ + 1]
       ELSE /\ pc' = "loop"
            /\ UNCHANGED sleepVars
            /\ hist' = [hist EXCEPT !.applied = result,
                                    !.lowered = IF consecutive_errors' < consecutive_errors
                                                THEN "result" ELSE @]
    /\ result' = INTERRUPTED    \* the locals of the retry loop are dead
    /\ retries' = 0             \* until the next item assigns them again
    /\ UNCHANGED <<running, max_retries, encoderVars, pickerVars, streamVars, signals>>

\* -------------------------------------------------- Application._handle_signal
\* self._running = False; self._streamer.interrupt(): _interrupted = True and
\* _kill_current().  A TimeoutExpired leaving _kill_current skips its clear()
\* and is raised in the main thread: inside the try of stream_video it enters
\* the except clause; inside the except or finally clause it leaves
\* stream_video (the finally clause clears the list when it still runs).
HandleSignal ==
    /\ pc \notin Terminal
    /\ signals < MaxSignals
    /\ signals' = signals + 1
    /\ running' = FALSE
    /\ interrupted' = TRUE
    /\ hist' = [hist EXCEPT !.sig_in_run = @ \/ pc \in BeforeDecision,
                            !.clash = @ \/ (pc \in {"kc_wait", "kc_clear"}
                                             /\ current_procs # <<>>)]
    /\ \E react \in Reactions :
        LET k == KillCurrent(proc, current_procs, react) IN
        /\ proc' = k.proc
        /\ IF ~k.raised
           THEN /\ current_procs' = <<>>
                /\ UNCHANGED <<pc, outcome>>
           ELSE IF pc \in TryRegion
           THEN /\ pc' = "kc_term"
                /\ UNCHANGED <<current_procs, outcome>>
           ELSE /\ pc' = "crashed"
                /\ outcome' = RAISED
                /\ current_procs' = IF pc \in ExceptRegion THEN <<>> ELSE current_procs
    /\ UNCHANGED <<consecutive_errors, max_retries, encoderVars, pickerVars, retries, result,
                   ytdlp_stderr_lines, ffmpeg_stderr_lines, pipe_open, drain, sleepVars>>

\* ------------------------------------------------------------ specification
Next ==
    \/ BuildInitialPool
    \/ LoopCheck
    \/ CircuitCheck
    \/ CircuitReset
    \/ NextVideo
    \/ RebuildPool
    \/ RetryLoopCheck
    \/ StreamCall
    \/ PreStartCheck
    \/ PopenYtdlp
    \/ PopenFfmpeg
    \/ ClosePipe
    \/ SetCurrentProcs
    \/ StartDrains
    \/ WaitFfmpeg
    \/ WaitYtdlp
    \/ JoinDrains
    \/ FinallyClear
    \/ PostCheck
    \/ ReturnCodes
    \/ ExceptTerm
    \/ ExceptWait
    \/ ExceptClear
    \/ ExceptReturn
    \/ ProcExit
    \/ DrainEof
    \/ AfterStream
    \/ HandleResult
    \/ SleepStep
    \/ SleepNap
    \/ HandleSignal

Spec == Init /\ [][Next]_vars

\* _classify_error on its own, applied once to every pair of buffers.
InitClassify ==
    /\ pc = "classify"
    /\ ytdlp_stderr_lines \in StderrBuffers
    /\ ffmpeg_stderr_lines \in StderrBuffers
    /\ running = TRUE
    /\ consecutive_errors = 0
    /\ max_retries = MaxRetriesCfg
    /\ hw_accel = "auto"
    /\ ffmpeg_env = PlainEnv
    /\ encoder = [name |-> _detect_hw_encoder(hw_accel, ffmpeg_env).encoder,
                  args |-> _detect_hw_encoder(hw_accel, ffmpeg_env).extra_args]
    /\ probed = _detect_hw_encoder(hw_accel, ffmpeg_env).probed
    /\ pool_size = 0
    /\ index = 0
    /\ retries = 0
    /\ result = INTERRUPTED
    /\ interrupted = FALSE
    /\ current_procs = <<>>
    /\ proc = [p \in ProcIds |-> NoProc]
    /\ pipe_open = FALSE
    /\ drain = NoDrain
    /\ outcome = ""
    /\ sleep_kind = ""
    /\ sleep_req = 0
    /\ remaining = 0
    /\ napping = FALSE
    /\ late = 0
    /\ signals = 0
    /\ hist = NoHist

\* return _classify_error(ytdlp_stderr_lines, ffmpeg_stderr_lines)
Classify ==
    /\ pc = "classify"
    /\ outcome' = _classify_error(ytdlp_stderr_lines, ffmpeg_stderr_lines)
    /\ pc' = "classified"
    /\ UNCHANGED <<running, consecutive_errors, max_retries, encoderVars, pickerVars,
                   retries, result, interrupted, current_procs, proc,
                   ytdlp_stderr_lines, ffmpeg_stderr_lines, pipe_open, drain,
                   sleepVars, signals, hist>>

NextClassify == Classify

SpecClassify == InitClassify /\ [][NextClassify]_vars

\* VideoStreamer.__init__ on its own, for every preference on every machine.
InitEncoder ==
    /\ pc = "construct"
    /\ hw_accel \in Preferences
    /\ ffmpeg_env \in FfmpegEnvs
    /\ encoder = [name |-> <<>>, args |-> <<>>]
    /\ probed = ""
    /\ running = TRUE
    /\ consecutive_errors = 0
    /\ max_retries = MaxRetriesCfg
    /\ pool_size = 0
    /\ index = 0
    /\ retries = 0
    /\ result = INTERRUPTED
    /\ interrupted = FALSE
    /\ current_procs = <<>>
    /\ proc = [p \in ProcIds |-> NoProc]
    /\ ytdlp_stderr_lines = <<>>
    /\ ffmpeg_stderr_lines = <<>>
    /\ pipe_open = FALSE
    /\ drain = NoDrain
    /\ outcome = ""
    /\ sleep_kind = ""
    /\ sleep_req = 0
    /\ remaining = 0
    /\ napping = FALSE
    /\ late = 0
    /\ signals = 0
    /\ hist = NoHist

\* self._encoder, self._encoder_args = _detect_hw_encoder(config.hw_accel)
Construct ==
    /\ pc = "construct"
    /\ LET r == _detect_hw_encoder(hw_accel, ffmpeg_env) IN
        /\ encoder' = [name |-> r.encoder, args |-> r.extra_args]
        /\ probed' = r.probed
    /\ pc' = "startup"
    /\ UNCHANGED <<running, consecutive_errors, max_retries, hw_accel,
                   ffmpeg_env, pickerVars, retries, result, streamVars,
                   sleepVars, signals, hist>>

NextEncoder == Construct

SpecEncoder == InitEncoder /\ [][NextEncoder]_vars

\* _sleep on its own: every request up to MaxSleepTicks, from each of its
\* call sites, with _running set or cleared at the call; the signal may
\* arrive at any point.
SleepKinds == {"circuit", "empty", "retry", "backoff", "cooldown"}

InitSleep ==
    /\ pc = "sleep_call"
    /\ sleep_kind \in SleepKinds
    /\ sleep_req \in 0..MaxSleepTicks
    /\ running \in BOOLEAN
    /\ interrupted = ~running
    /\ signals = IF running THEN 0 ELSE 1
    /\ remaining = 0
    /\ napping = FALSE
    /\ late = 0
    /\ consecutive_errors = 0
    /\ max_retries = MaxRetriesCfg
    /\ hw_accel = "auto"
    /\ ffmpeg_env = PlainEnv
    /\ encoder = [name |-> _detect_hw_encoder(hw_accel, ffmpeg_env).encoder,
                  args |-> _detect_hw_encoder(hw_accel, ffmpeg_env).extra_args]
    /\ probed = _detect_hw_encoder(hw_accel, ffmpeg_env).probed
    /\ pool_size = 0
    /\ index = 0
    /\ retries = 0
    /\ result = INTERRUPTED
    /\ current_procs = <<>>
    /\ proc = [p \in ProcIds |-> NoProc]
    /\ ytdlp_stderr_lines = <<>>
    /\ ffmpeg_stderr_lines = <<>>
    /\ pipe_open = FALSE
    /\ drain = NoDrain
    /\ outcome = ""
    /\ hist = NoHist

\* self._sleep(seconds)
EnterSleep ==
    /\ pc = "sleep_call"
    /\ StartSleepTicks(sleep_kind, sleep_req)
    /\ UNCHANGED <<running, consecutive_errors, max_retries, encoderVars, pickerVars,
                   retries, result, streamVars, signals, hist>>

NextSleep ==
    \/ EnterSleep
    \/ SleepStep
    \/ SleepNap
    \/ HandleSignal

SpecSleep == InitSleep /\ [][NextSleep]_vars

\* One call of stream_video on its own, from the call to the return, with
\* the children, the drain threads and the signal.
InitRun ==
    /\ pc = "sv_call"
    /\ running = TRUE
    /\ consecutive_errors = 0
    /\ max_retries = MaxRetriesCfg
    /\ hw_accel = "auto"
    /\ ffmpeg_env = PlainEnv
    /\ encoder = [name |-> _detect_hw_encoder(hw_accel, ffmpeg_env).encoder,
                  args |-> _detect_hw_encoder(hw_accel, ffmpeg_env).extra_args]
    /\ probed = _detect_hw_encoder(hw_accel, ffmpeg_env).probed
    /\ pool_size = 1
    /\ index = 1
    /\ retries = 0
    /\ result = INTERRUPTED
    /\ interrupted = FALSE
    /\ current_procs = <<>>
    /\ proc = [p \in ProcIds |-> NoProc]
    /\ ytdlp_stderr_lines = <<>>
    /\ ffmpeg_stderr_lines = <<>>
    /\ pipe_open = FALSE
    /\ drain = NoDrain
    /\ outcome = ""
    /\ sleep_kind = ""
    /\ sleep_req = 0
    /\ remaining = 0
    /\ napping = FALSE
    /\ late = 0
    /\ signals = 0
    /\ hist = NoHist

\* the steps of stream_video in the main thread
RunStep ==
    \/ StreamCall \/ PreStartCheck \/ PopenYtdlp \/ PopenFfmpeg \/ ClosePipe
    \/ SetCurrentProcs \/ StartDrains \/ WaitFfmpeg \/ WaitYtdlp
    \/ JoinDrains \/ FinallyClear \/ PostCheck \/ ReturnCodes
    \/ ExceptTerm \/ ExceptWait \/ ExceptClear \/ ExceptReturn

NextRun ==
    \/ RunStep
    \/ ProcExit
    \/ DrainEof
    \/ HandleSignal

SpecRun == InitRun /\ [][NextRun]_vars

\* yt-dlp, still writing, gets SIGPIPE or EPIPE once the pipe has no reader.
BrokenPipeExit ==
    /\ ProcExit
    /\ NoReader
    /\ proc["ytdlp"].st = "running"
    /\ proc'["ytdlp"].st = "exited"

\* stream_video with the main thread going on and the kernel ending a
\* writer to a pipe without reader; nothing else is assumed of the children.
FairSpecRun == SpecRun /\ WF_vars(RunStep) /\ WF_vars(BrokenPipeExit)

\* The steps of the main thread: the interpreter keeps running it, so a step
\* that stays possible is taken.  The blocking calls (wait() on a child) are
\* possible only once the child has exited.
MainStep ==
    \/ BuildInitialPool \/ LoopCheck \/ CircuitCheck \/ CircuitReset
    \/ NextVideo \/ RebuildPool \/ RetryLoopCheck \/ StreamCall
    \/ PreStartCheck \/ PopenYtdlp \/ PopenFfmpeg \/ ClosePipe
    \/ SetCurrentProcs \/ StartDrains \/ WaitFfmpeg \/ WaitYtdlp
    \/ JoinDrains \/ FinallyClear \/ PostCheck \/ ReturnCodes
    \/ ExceptTerm \/ ExceptWait \/ ExceptClear \/ ExceptReturn
    \/ AfterStream \/ HandleResult \/ SleepStep \/ SleepNap

\* A child that was sent SIGKILL (proc.kill()) exits.
KilledExit ==
    /\ ProcExit
    /\ \E p \in ProcIds : proc[p].kill /\ proc[p].st = "running"
                             /\ proc'[p].st = "exited"

\* The run loop under the scheduling the interpreter and the kernel give:
\* the main thread goes on, a killed child exits; nothing is assumed of a
\* child that was not killed, nor of the arrival of signals.
FairSpec == Spec /\ WF_vars(MainStep) /\ WF_vars(KilledExit)

TypeOK ==
    /\ running \in BOOLEAN
    /\ interrupted = ~running
    /\ hw_accel \in Preferences
    /\ ffmpeg_env \in FfmpegEnvs
    /\ consecutive_errors \in 0..CIRCUIT_BREAKER_THRESHOLD
    /\ result \in StreamResult
    /\ outcome \in StreamResult \cup {"", RAISED}
    /\ index \in 0..pool_size
    /\ remaining \in 0..sleep_req
    /\ napping \in BOOLEAN
    /\ drain \in [ProcIds -> {"none", "reading", "done"}]
    /\ late \in 0..TicksPerSecond

\* ================================================================== claims
Retryable == {DOWNLOAD_ERROR, ENCODE_ERROR, RTMP_ERROR}

\* C1: when the shutdown flag is set while a pipeline run is in progress,
\* every child of that run that is still running has been sent SIGTERM, and
\* once the run is over any child of it that is still running has been sent
\* SIGKILL: no child is left running unsignalled.
C1_ChildrenStopped ==
    /\ (interrupted /\ pc \in InRun) =>
          \A p \in ProcIds : proc[p].st = "running" => proc[p].term
    /\ (hist.sig_in_run /\ outcome # "") =>
          \A p \in ProcIds : proc[p].st = "running" => proc[p].kill

\* C2: a run during which the shutdown flag was set before its outcome was
\* settled ends by returning INTERRUPTED.
C2_CancelledWhenFlagSetInRun ==
    (hist.sig_in_run /\ outcome # "") => outcome = INTERRUPTED

\* C3: once the shutdown flag is set no item is pulled from the picker and no
\* child process is started.
C3_NoWorkAfterShutdown ==
    ~hist.pull_late /\ ~hist.spawn_late

\* C4: a stream_video call entered with the shutdown flag set starts no
\* process, never gets past the pre-start check and returns INTERRUPTED.
C4_PreStartCancel ==
    hist.intr_at_call =>
        /\ pc \notin (InRun \ {"sv_ret"})
        /\ \A p \in ProcIds : proc[p].st = "none"
        /\ pc = "sv_ret" => outcome = INTERRUPTED
        /\ outcome \in {"", INTERRUPTED}

C4_Witness ==
    hist.intr_at_call /\ pc = "sv_ret" /\ outcome = INTERRUPTED

\* C5: a loop iteration that starts with the counter at or above the
\* threshold sleeps the circuit pause, then resets the counter to 0 and goes
\* back to the loop head without pulling an item; below the threshold the
\* breaker does not fire; the pause leaves the counter alone.
C5_CircuitBreaker ==
    [][ /\ (pc = "cb_check" /\ pc' # pc) =>
              IF consecutive_errors >= CIRCUIT_BREAKER_THRESHOLD
              THEN /\ pc' = "sleep"
                   /\ sleep_kind' = "circuit"
                   /\ sleep_req' = Ticks(CIRCUIT_BREAKER_PAUSE)
                   /\ consecutive_errors' = consecutive_errors
              ELSE pc' = "pull" /\ sleep_kind' # "circuit"
        /\ (pc = "sleep" /\ sleep_kind = "circuit") =>
              /\ consecutive_errors' = consecutive_errors
              /\ pc' \in {"sleep", "cb_reset"}
        /\ (pc = "cb_reset" /\ pc' # pc) =>
              consecutive_errors' = 0 /\ pc' = "loop"
        /\ pc' = "pull" => consecutive_errors' < CIRCUIT_BREAKER_THRESHOLD
      ]_vars

C5_Witness ==
    pc = "loop" /\ hist.lowered = "circuit" /\ consecutive_errors = 0 /\ running

\* C6 as stated: the counter is lowered only by applying a SUCCESS result.
C6_OnlySuccessLowers ==
    [][ consecutive_errors' < consecutive_errors =>
            (pc = "handle" /\ result = SUCCESS) ]_vars

\* C6 amended: the counter is lowered only by applying a SUCCESS result or by
\* the circuit breaker firing, and both set it to 0.
C6_SuccessOrCircuitLowers ==
    [][ consecutive_errors' < consecutive_errors =>
            /\ consecutive_errors' = 0
            /\ \/ pc = "handle" /\ result = SUCCESS
               \/ pc = "cb_reset" ]_vars

C6_Witness ==
    pc = "loop" /\ hist.lowered = "result" /\ hist.applied = SUCCESS
        /\ hist.prior > 0 /\ consecutive_errors = 0

\* C7: _handle_result leaves the counter at 0 after SUCCESS, unchanged and
\* without a sleep after INTERRUPTED or VIDEO_UNAVAILABLE, and one higher after
\* any other result; an empty-pool iteration leaves it unchanged.
C7_ApplyOutcome ==
    [][ /\ (pc = "handle" /\ pc' # pc) =>
              /\ result = SUCCESS =>
                    consecutive_errors' = 0 /\ pc' = "loop"
              /\ result \in {INTERRUPTED, VIDEO_UNAVAILABLE} =>
                    consecutive_errors' = consecutive_errors /\ pc' = "loop"
              /\ result \notin {SUCCESS, INTERRUPTED, VIDEO_UNAVAILABLE} =>
                    consecutive_errors' = consecutive_errors + 1
        /\ (pc \in {"pull", "rebuild"} \/ (pc = "sleep" /\ sleep_kind = "empty")) =>
              consecutive_errors' = consecutive_errors
      ]_vars

C7_Witness ==
    pc = "loop" /\ hist.applied = VIDEO_UNAVAILABLE /\ hist.prior > 0
        /\ consecutive_errors = hist.prior

\* C8: an item gets at most max_retries+1 stream_video calls; a further call
\* is made only after a retryable result and after one retry-delay sleep per
\* earlier call.
C8_RetryBound ==
    /\ [](hist.calls <= max_retries + 1 /\ hist.retry_sleeps <= hist.calls)
    /\ [][ hist.calls' = hist.calls + 1 =>
              \/ hist.calls = 0
              \/ result \in Retryable /\ hist.retry_sleeps = hist.calls ]_vars
    /\ [][ (pc = "sv_ret" /\ pc' # pc /\ outcome \notin Retryable) =>
              pc' = "handle" ]_vars

C8_Witness ==
    pc = "handle" /\ max_retries = 2 /\ hist.calls = 3 /\ hist.retry_sleeps = 2

\* C9: when all runs of an item fail with a retryable result and no shutdown
\* occurs, the item got max_retries+1 runs and max_retries retry-delay
\* sleeps, the result applied is the last run's, the counter went up by 1
\* and one cooldown or backoff sleep was made.
C9_AllRunsFail ==
    (running /\ hist.applied \in Retryable) =>
        /\ hist.calls = max_retries + 1
        /\ hist.retry_sleeps = max_retries
        /\ hist.cool_sleeps = 1
        /\ hist.applied = outcome
        /\ consecutive_errors = hist.prior + 1

C9_Witness ==
    running /\ pc = "loop" /\ max_retries = 2 /\ hist.applied = ENCODE_ERROR
        /\ hist.calls = 3 /\ hist.cool_sleeps = 1

\* C10: the sleep after RTMP_ERROR is min(2^(c+1), 120) seconds for a prior
\* counter c; the sleep after DOWNLOAD_ERROR or ENCODE_ERROR is the fixed
\* error cooldown.
C10_BackoffDuration ==
    /\ (pc = "sleep" /\ hist.applied = RTMP_ERROR) =>
          /\ sleep_kind = "backoff"
          /\ sleep_req = Ticks(Min(2 ^ (hist.prior + 1), 120))
    /\ (pc = "sleep" /\ hist.applied \in {DOWNLOAD_ERROR, ENCODE_ERROR}) =>
          /\ sleep_kind = "cooldown"
          /\ sleep_req = Ticks(error_cooldown)

C10_Witness ==
    pc = "sleep" /\ hist.applied = RTMP_ERROR /\ hist.prior = 5 /\ sleep_req = Ticks(64)

\* C11: the run loop ends, by return or by an exception, only once the
\* shutdown signal has been taken (_running is false).
C11_StopsOnlyOnShutdown ==
    pc \in {"stopped", "crashed"} => ~running

\* C12: stream_video never raises: every call that ends ends by returning one
\* StreamResult value.
C12_AlwaysReturns ==
    /\ outcome # RAISED
    /\ pc = "sv_ret" => outcome \in StreamResult

\* C13: a Popen failure is reported by stage: DOWNLOAD_ERROR for yt-dlp,
\* ENCODE_ERROR for ffmpeg, INTERRUPTED for either when the shutdown flag was
\* set before the outcome was settled.
C13_CreationFailureByStage ==
    (pc = "sv_ret" /\ hist.popen_failed # "") =>
        outcome = IF hist.sig_in_run THEN INTERRUPTED
                  ELSE IF hist.popen_failed = "ytdlp" THEN DOWNLOAD_ERROR
                  ELSE ENCODE_ERROR

\* C14: with no shutdown signal and both children started, stream_video
\* returns SUCCESS exactly when both exit statuses are 0, and otherwise the
\* verdict of _classify_error on the two buffers, which is neither SUCCESS
\* nor INTERRUPTED.
C14_ExitCodesThenClassifier ==
    (pc = "sv_ret" /\ running /\ hist.popen_failed = "") =>
        /\ \A p \in ProcIds : proc[p].st = "exited"
        /\ (outcome = SUCCESS) <=> (proc["ytdlp"].rc = 0 /\ proc["ffmpeg"].rc = 0)
        /\ outcome # SUCCESS =>
              /\ outcome = _classify_error(ytdlp_stderr_lines, ffmpeg_stderr_lines)
              /\ outcome \in {VIDEO_UNAVAILABLE, DOWNLOAD_ERROR, RTMP_ERROR, ENCODE_ERROR}

C14_Witness ==
    /\ pc = "sv_ret" /\ running /\ hist.popen_failed = ""
    /\ proc["ytdlp"].rc = 1 /\ proc["ffmpeg"].rc = 0
    /\ ffmpeg_stderr_lines = <<LineRefused>>
    /\ outcome = VIDEO_UNAVAILABLE

\* C16: whenever the shutdown trigger may run, _current_procs holds every
\* child that has been started and is still running, and the trigger never
\* walks and clears the list while the main thread is walking it.
C16_HandlesPublished ==
    /\ \A p \in ProcIds :
          (pc \in InRun /\ proc[p].st = "running") =>
              \E i \in 1..Len(current_procs) : current_procs[i] = p
    /\ ~hist.clash

\* C19: when the ffmpeg Popen fails after yt-dlp was started, yt-dlp is
\* stopped, so that no child of the run is still running when stream_video
\* returns.
C19_CleanupAfterFailedStart ==
    (pc = "sv_ret" /\ hist.popen_failed = "ffmpeg") =>
        \A p \in ProcIds : proc[p].st # "running"

C20_ShutdownReachesStopped ==
    (~running /\ pc \notin {"startup"} \cup Terminal)
        ~> (pc \in {"stopped", "crashed"})

\* A line of diagnostics shows one of the phrases, whatever its case.
LineHas(line, phrases) == \E phrase \in phrases : Contains(Lower(line), phrase)
BufferHas(buffer, phrases) ==
    \E i \in 1..Len(buffer) : LineHas(buffer[i], phrases)

\* C15: the verdict of the classifier is fixed by the two buffers, by the
\* first rule that matches: an unavailable phrase in a yt-dlp line gives
\* VIDEO_UNAVAILABLE; else a generic failure phrase in a yt-dlp line gives
\* DOWNLOAD_ERROR; else a connectivity phrase in an ffmpeg line gives
\* RTMP_ERROR; else a generic failure phrase in an ffmpeg line gives
\* ENCODE_ERROR; else DOWNLOAD_ERROR.  A yt-dlp line "ERROR: Video
\* unavailable" gives VIDEO_UNAVAILABLE whatever ffmpeg printed, and two
\* empty buffers give DOWNLOAD_ERROR.
C15_ClassifierPrecedence ==
    pc = "classified" =>
        /\ outcome =
              IF BufferHas(ytdlp_stderr_lines, UnavailablePhrases)
              THEN VIDEO_UNAVAILABLE
              ELSE IF BufferHas(ytdlp_stderr_lines, DownloadPhrases)
              THEN DOWNLOAD_ERROR
              ELSE IF BufferHas(ffmpeg_stderr_lines, RtmpPhrases)
              THEN RTMP_ERROR
              ELSE IF BufferHas(ffmpeg_stderr_lines, EncodePhrases)
              THEN ENCODE_ERROR
              ELSE DOWNLOAD_ERROR
        /\ (\E i \in 1..Len(ytdlp_stderr_lines) :
                ytdlp_stderr_lines[i] = LineUnavailable)
              => outcome = VIDEO_UNAVAILABLE
        /\ (ytdlp_stderr_lines = <<>> /\ ffmpeg_stderr_lines = <<>>)
              => outcome = DOWNLOAD_ERROR

\* yt-dlp reported an HTTP failure and ffmpeg a refused connection: the
\* yt-dlp rule comes first
C15_Witness ==
    /\ pc = "classified"
    /\ ytdlp_stderr_lines = <<LineProgress, LineHttp>>
    /\ ffmpeg_stderr_lines = <<LineRefused>>
    /\ outcome = DOWNLOAD_ERROR

\* the candidate a preference admits and the ffmpeg build has, by priority
ExpectedEncoder(preference, built) ==
    IF preference \in {"auto", "nvenc"} /\ h264_nvenc \in built
    THEN [name |-> h264_nvenc, args |-> <<"-preset", "p4">>]
    ELSE IF preference \in {"auto", "videotoolbox"} /\ h264_videotoolbox \in built
    THEN [name |-> h264_videotoolbox, args |-> <<>>]
    ELSE IF preference \in {"auto", "vaapi"} /\ h264_vaapi \in built
    THEN [name |-> h264_vaapi, args |-> <<>>]
    ELSE [name |-> libx264, args |-> <<>>]

\* C18: the encoder fixed at construction: preference "none" gives libx264
\* with no extra arguments and nothing is probed; with ffmpeg absent, or
\* its encoder listing failing or timing out, libx264; otherwise the first
\* of nvenc, videotoolbox, vaapi that the preference admits and the
\* listing shows, and libx264 when there is none.
C18_EncoderSelected ==
    (pc = "startup" /\ probed # "") =>
        /\ hw_accel = "none" =>
              encoder = [name |-> libx264, args |-> <<>>] /\ probed = "no"
        /\ (hw_accel # "none" /\ (~ffmpeg_env.path \/ ffmpeg_env.run # "ok")) =>
              encoder = [name |-> libx264, args |-> <<>>]
        /\ (hw_accel # "none" /\ ffmpeg_env.path /\ ffmpeg_env.run = "ok") =>
              encoder = ExpectedEncoder(hw_accel, ffmpeg_env.built)

\* "auto" on a machine whose ffmpeg has both the videotoolbox and the vaapi
\* encoder (and hevc_nvenc, which is no candidate): videotoolbox is taken
C18_Witness ==
    /\ pc = "startup"
    /\ hw_accel = "auto"
    /\ ffmpeg_env.built = {libx264, hevc_nvenc, h264_videotoolbox, h264_vaapi}
    /\ encoder = [name |-> h264_videotoolbox, args |-> <<>>]

\* C22: when next_video() gives no video, no stream_video call is made in
\* that turn of the loop: _sleep(60) is entered, then the pool rebuild is
\* tried, and whether it fails or not the loop goes on to its next turn,
\* consecutive_errors being what it was.
C22_EmptyPoolTurn ==
    [][ /\ (pc = "pull" /\ pc' = "sleep") =>
              /\ sleep_kind' = "empty"
              /\ sleep_req' = Ticks(EMPTY_POOL_PAUSE)
              /\ remaining' = Ticks(EMPTY_POOL_PAUSE)
        /\ (pc = "sleep" /\ sleep_kind = "empty") =>
              /\ hist.calls = 0
              /\ pc' \in {"sleep", "rebuild"}
              /\ (pc' = "rebuild") => (~running \/ remaining = 0)
        /\ pc = "rebuild" =>
              /\ hist.calls = 0
              /\ pc' \in {"rebuild", "loop"}
        /\ ((pc = "pull" /\ pc' = "sleep") \/ pc \in {"rebuild"}
              \/ (pc = "sleep" /\ sleep_kind = "empty")) =>
              consecutive_errors' = consecutive_errors
      ]_vars

\* the rebuild failed after failures were counted, and the loop goes on
C22_Witness ==
    /\ pc = "loop"
    /\ running
    /\ hist.rebuild = "failed"
    /\ consecutive_errors > 0

\* C24: consecutive_errors stays within 0..CIRCUIT_BREAKER_THRESHOLD, and
\* so does the exponent of the RTMP backoff.
C24_CounterBounded ==
    /\ consecutive_errors \in 0..CIRCUIT_BREAKER_THRESHOLD
    /\ (pc = "sleep" /\ sleep_kind = "backoff") =>
          \E k \in 1..CIRCUIT_BREAKER_THRESHOLD :
              k = consecutive_errors /\ sleep_req = Ticks(Min(2 ^ k, BACKOFF_CAP))

\* the tenth failure in a row was an RTMP error
C24_Witness ==
    /\ pc = "sleep"
    /\ sleep_kind = "backoff"
    /\ consecutive_errors = CIRCUIT_BREAKER_THRESHOLD

\* C25: while no shutdown was requested, the result given to
\* _handle_result for a pulled item is not INTERRUPTED and stream_video was
\* called for the item at least once, whatever max_retries_per_video is.
C25_CancelledOnlyOnShutdown ==
    (pc = "handle" /\ running) => (result # INTERRUPTED /\ hist.calls >= 1)

\* C23: _sleep starts no time.sleep call at a test made with _running
\* cleared, so it does not sleep at all when called with the flag cleared;
\* a time.sleep call lasts min(1s, remaining); what is slept in calls that
\* end after the flag was cleared is at most one step of 1s; and with the
\* flag still set _sleep returns exactly when nothing remains of the
\* requested time, which it never exceeds.
C23_CancellableSleep ==
    [][ /\ (pc = "sleep" /\ ~napping /\ ~running) => ~napping'
        /\ (pc = "sleep" /\ ~napping /\ running /\ running') =>
              IF remaining > 0 THEN napping' /\ pc' = "sleep"
              ELSE pc' # "sleep"
        /\ (napping /\ ~napping') =>
              /\ remaining - remaining' = Min(TicksPerSecond, remaining)
              /\ pc' = "sleep"
        /\ remaining' >= 0
        /\ late' <= TicksPerSecond
        /\ (pc = "sleep" /\ pc' # "sleep" /\ running) => remaining = 0
      ]_vars

\* 1.5 s were asked for; the signal came during the last time.sleep call, of
\* half a second, after which the loop of _sleep is at its test again
C23_Witness ==
    /\ pc = "sleep"
    /\ ~napping
    /\ ~running
    /\ sleep_req = 3
    /\ remaining = 0
    /\ late = 1

\* C26: when stream_video is about to classify a failed run, both drain
\* threads of the run have ended, so that neither list is appended to any
\* more; this also after a join that timed out.
C26_DrainsEndedAtClassification ==
    (pc = "sv_rc" /\ ~PipelineOk(proc["ytdlp"].rc, proc["ffmpeg"].rc)) =>
        \A p \in ProcIds : drain[p] = "done"

\* C21: the parent closes its copy of the pipe between yt-dlp and ffmpeg
\* once ffmpeg was started on it and before it waits for a child; so, when
\* ffmpeg has exited and yt-dlp still writes, yt-dlp ends on the broken pipe
\* and ytdlp_proc.wait(), which follows ffmpeg_proc.wait(), returns.
C21_PipeClosedBeforeWaits ==
    /\ [](pc \in {"sv_setprocs", "sv_threads", "sv_wait_f", "sv_wait_y", "sv_join"}
            => ~pipe_open)
    /\ [][(pipe_open /\ ~pipe_open') => (pc = "sv_close" /\ proc["ffmpeg"].st # "none")]_vars
    /\ (pc = "sv_wait_y") ~> (pc # "sv_wait_y")

\* ffmpeg went first and ffmpeg_proc.wait() returned; yt-dlp then ended on
\* the broken pipe, and ytdlp_proc.wait() is about to return
C21_Witness ==
    /\ pc = "sv_wait_y"
    /\ running
    /\ hist.epipe
    /\ ~pipe_open
    /\ proc["ytdlp"].st = "exited"

====
